---- MODULE Spec2Model ----
(***************************************************************************)
(* FIFO cost-basis engine of wav-dca-tracker (utils/finance): computePnL   *)
(* and computeTotals, as a state machine that replays one call.            *)
(*                                                                         *)
(* Numbers.  The source computes on IEEE doubles.  The model is exact      *)
(* fixed-point arithmetic: a quantity is an integer number of units of     *)
(* 1e-8 (the step of the quantity input of the form), so the source's      *)
(* threshold 1e-8 is one unit (Eps); a price is an integer number of       *)
(* currency units; an amount (quantity x price) is their product.  A       *)
(* quotient of the source (costAvg, pnlPercent) is kept as the fraction    *)
(* num/den, never rounded.                                                 *)
(***************************************************************************)
EXTENDS Integers, Sequences, FiniteSets, TLC

----------------------------------------------------------------------------
(* Bounds and input domains *)

MaxTx == 3

Assets == {"BTC", "ETH"}
Types == {"BUY", "SELL"}
TxPrices == {0, 2}
Quantities == {1, 3}
MarketPrices == {2}

\* the threshold 1e-8 of lots.shift(), in quantity units
Eps == 1

\* an asset the price map has no entry for
NoPrice == 0 - 1

TxOf(dates, txPrices, quantities) ==
  [date : dates, asset : Assets, type : Types, price : txPrices, quantity : quantities]

ListsOf(S) == UNION {[1..n -> S] : n \in 0..MaxTx}

PriceMaps == [Assets -> MarketPrices \cup {NoPrice}]

VARIABLES
  transactions,     \* the caller's list, argument of computePnL
  prices,           \* the caller's price map, argument of computePnL
  sorted,           \* const sorted
  pc,               \* position in computePnL / computeTotals
  idx,              \* position of the for-of loop in sorted
  keys,             \* Object.keys(lotsByAsset), in insertion order
  lotsByAsset,      \* asset -> queue of open lots
  realisedByAsset,  \* asset -> realised accumulator
  qtyToSell,        \* let qtyToSell of the SELL being processed
  result,           \* the summary returned by computePnL
  totals,           \* the record returned by computeTotals
  portions,         \* history: every lot portion consumed by a SELL
  dropped,          \* history: every lot removed by lots.shift(), with its residue
  excess,           \* history: asset -> sell quantity left unmatched
  atSell            \* history: the ledger when the last SELL began

\* the caller of computePnL, when it calls a second time
VARIABLES
  fixedPrices,      \* the caller's price map is given from the start
  calls,            \* the calls that have returned
  first             \* what the first call returned

callVars == <<fixedPrices, calls, first>>

\* the locals of computeMonthlyHistory
VARIABLES
  months,              \* const months
  mIdx,                \* position of the for-of loop in months
  history,             \* const history
  prevPortfolioValue,  \* let prevPortfolioValue
  prevInvested         \* let prevInvested

histVars == <<months, mIdx, history, prevPortfolioValue, prevInvested>>

\* one call of fetchPrices
VARIABLES
  fpc,       \* where the call of fetchPrices is
  assets,    \* its argument assets
  manual,    \* its argument manual
  fetched,   \* its local prices
  outcome    \* what became of the request to the price service

fetchVars == <<fpc, assets, manual, fetched, outcome>>

\* the Home page
VARIABLES
  hpc,           \* where the page is: not mounted, mounted
  storage,       \* localStorage, the key wavDcaTransactions
  manualPrices,  \* useState: manualPrices
  homeSummary,   \* useState: summary
  homeHistory,   \* useState: history
  lastUpdated,   \* useState: lastUpdated (0: null)
  pending,       \* the state updates that wait for the next render
  inflight,      \* the calls of fetchPrices that have not resolved, oldest first
  epoch,         \* how many times the price-fetch effect has run
  events,        \* how many times the user has acted
  storedBefore   \* what localStorage held before the page was mounted

homeVars == <<hpc, storage, manualPrices, homeSummary, homeHistory, lastUpdated,
              pending, inflight, epoch, events, storedBefore>>

\* the variables of everything but computePnL / computeTotals
otherVars == <<callVars, histVars, fetchVars, homeVars>>

vars == <<transactions, prices, sorted, pc, idx, keys, lotsByAsset,
          realisedByAsset, qtyToSell, result, totals, portions, dropped, excess,
          atSell, otherVars>>

----------------------------------------------------------------------------
(* Helpers *)

Min(a, b) == IF a <= b THEN a ELSE b

Range(s) == {s[i] : i \in 1..Len(s)}

\* InsertByDate placing a record before the records of its own date
InsertBeforeSameDate(s, tx) ==
  LET before == {i \in 1..Len(s) : s[i].date < tx.date}
  IN  SubSeq(s, 1, Cardinality(before)) \o <<tx>> \o SubSeq(s, Cardinality(before) + 1, Len(s))

\* [...transactions].sort((a, b) => new Date(a.date) - new Date(b.date)):
\* Array.prototype.sort is stable, so a record is placed after every record
\* whose date is not later than its own.
RECURSIVE InsertByDate(_, _)
InsertByDate(s, tx) ==
  IF s = <<>> THEN <<tx>>
  ELSE IF s[Len(s)].date - tx.date <= 0 THEN Append(s, tx)
  ELSE Append(InsertByDate(SubSeq(s, 1, Len(s) - 1), tx), s[Len(s)])

RECURSIVE SortByDate(_)
SortByDate(s) ==
  IF s = <<>> THEN <<>>
  ELSE InsertByDate(SortByDate(SubSeq(s, 1, Len(s) - 1)), s[Len(s)])

\* SortedCopy as transactions.sort(...): sort() orders the array it is called on
SortedInPlace(txs) == [sorted |-> SortByDate(txs), caller |-> SortByDate(txs)]

\* [...transactions].sort(...): the spread makes a new array, which sort()
\* orders in place; the caller's array keeps its order
SortedCopy(txs) == [sorted |-> SortByDate(txs), caller |-> txs]

----------------------------------------------------------------------------
(* computePnL: the ledger replay.  A ledger is the triple of the locals   *)
(* lotsByAsset (with its key order), realisedByAsset.                     *)

Ledger(ks, lots, realised) == [keys |-> ks, lots |-> lots, realised |-> realised]

EmptyLedger == Ledger(<<>>, [a \in Assets |-> <<>>], [a \in Assets |-> 0])

\* if (!lotsByAsset[asset]) lotsByAsset[asset] = [];
\* if (!realisedByAsset[asset]) realisedByAsset[asset] = 0;
Touch(L, asset) ==
  IF asset \in Range(L.keys) THEN L ELSE [L EXCEPT !.keys = Append(@, asset)]

\* PushLot with unshift for push: the new lot goes to the head
PushLotFront(L, tx) ==
  [Touch(L, tx.asset) EXCEPT !.lots[tx.asset] =
     <<[quantity |-> tx.quantity, price |-> tx.price]>> \o @]

\* lotsByAsset[asset].push({ quantity, price });
PushLot(L, tx) ==
  [Touch(L, tx.asset) EXCEPT !.lots[tx.asset] =
     Append(@, [quantity |-> tx.quantity, price |-> tx.price])]

\* SellQty without Math.min
SellQtyAll(lot, qty) == qty

\* const sellQty = Math.min(lot.quantity, qtyToSell);
SellQty(lot, qty) == Min(lot.quantity, qty)

\* RealisedGain with the two prices exchanged
RealisedGainSwapped(sellQty, price, lot) == sellQty * (lot.price - price)

\* realisedByAsset[asset] += sellQty * (price - lot.price);
RealisedGain(sellQty, price, lot) == sellQty * (price - lot.price)

\* ConsumeHead without "lot.quantity -= sellQty"
ConsumeHeadNoDecrement(lots, sellQty) ==
  IF lots[1].quantity - sellQty <= Eps THEN Tail(lots) ELSE lots

\* ConsumeHead with "lot.quantity < 1e-8"
ConsumeHeadBelow(lots, sellQty) ==
  LET left == lots[1].quantity - sellQty
  IN  IF left < Eps THEN Tail(lots)
      ELSE <<[lots[1] EXCEPT !.quantity = left]>> \o Tail(lots)

\* lot.quantity -= sellQty; if (lot.quantity <= 1e-8) lots.shift();
ConsumeHead(lots, sellQty) ==
  LET left == lots[1].quantity - sellQty
  IN  IF left <= Eps THEN Tail(lots)
      ELSE <<[lots[1] EXCEPT !.quantity = left]>> \o Tail(lots)

\* StartSell leaving the ledger alone: only a BUY creates the entries
StartSellNoEntry(L, tx) == L

\* the SELL branch is entered after
\* if (!lotsByAsset[asset]) lotsByAsset[asset] = [];
\* if (!realisedByAsset[asset]) realisedByAsset[asset] = 0;
StartSell(L, tx) == Touch(L, tx.asset)

\* while (qtyToSell > 0 && lots.length > 0)
SellGoesOn(L, tx, qty) == qty > 0 /\ Len(L.lots[tx.asset]) > 0

\* one iteration of the while loop: the ledger and qtyToSell after it
SellOnce(L, tx, qty) ==
  LET lot == L.lots[tx.asset][1]
      sellQty == SellQty(lot, qty)
  IN  [ledger |-> [L EXCEPT !.realised[tx.asset] = @ + RealisedGain(sellQty, tx.price, lot),
                            !.lots[tx.asset] = ConsumeHead(@, sellQty)],
       qtyToSell |-> qty - sellQty]

\* the whole while loop
RECURSIVE SellAll(_, _, _)
SellAll(L, tx, qty) ==
  IF SellGoesOn(L, tx, qty)
  THEN LET once == SellOnce(L, tx, qty) IN SellAll(once.ledger, tx, once.qtyToSell)
  ELSE L

\* the body of: for (const tx of sorted) { ... }
ApplyTx(L, tx) ==
  IF tx.type = "BUY" THEN PushLot(L, tx)
  ELSE IF tx.type = "SELL" THEN SellAll(StartSell(L, tx), tx, tx.quantity)
  ELSE Touch(L, tx.asset)

\* for (const tx of sorted) { ... }
RECURSIVE Replay(_, _)
Replay(L, s) == IF s = <<>> THEN L ELSE Replay(ApplyTx(L, Head(s)), Tail(s))

----------------------------------------------------------------------------
(* computePnL: the summary *)

\* lots.reduce((sum, lot) => sum + lot.quantity, 0)
RECURSIVE TotalQty(_)
TotalQty(lots) ==
  IF lots = <<>> THEN 0
  ELSE TotalQty(SubSeq(lots, 1, Len(lots) - 1)) + lots[Len(lots)].quantity

\* Invested without "* lot.price"
InvestedNoPrice(lots) == TotalQty(lots)

\* lots.reduce((sum, lot) => sum + lot.quantity * lot.price, 0)
RECURSIVE Invested(_)
Invested(lots) ==
  IF lots = <<>> THEN 0
  ELSE Invested(SubSeq(lots, 1, Len(lots) - 1))
         + lots[Len(lots)].quantity * lots[Len(lots)].price

\* CurrentPrice without "?? 0"
CurrentPriceRaw(pm, asset) == pm[asset]

\* prices[asset] ?? 0
CurrentPrice(pm, asset) == IF pm[asset] = NoPrice THEN 0 ELSE pm[asset]

\* a quotient n / d of the source, kept exact; null is the source's null
Null == [null |-> TRUE, num |-> 0, den |-> 1]

Frac(n, d) == [null |-> FALSE, num |-> n, den |-> d]

\* totalQty > 0 ? invested / totalQty : 0
CostAvg(invested, totalQty) ==
  IF totalQty > 0 THEN Frac(invested, totalQty) ELSE Frac(0, 1)

\* PnlPercent without the test of invested
PnlPercentNoGuard(pnl, invested) == Frac(pnl * 100, invested)

\* invested > 0 ? (pnl / invested) * 100 : null
PnlPercent(pnl, invested) ==
  IF invested > 0 THEN Frac(pnl * 100, invested) ELSE Null

\* the body of: for (const asset of Object.keys(lotsByAsset)) { ... }
Summary(lots, realisedAcc, currentPrice) ==
  LET totalQty == TotalQty(lots)
      invested == Invested(lots)
      value == currentPrice * totalQty
      realised == realisedAcc
      unrealised == value - invested
      pnl == realised + unrealised
  IN  [quantity |-> totalQty,
       invested |-> invested,
       currentPrice |-> currentPrice,
       value |-> value,
       realised |-> realised,
       unrealised |-> unrealised,
       pnl |-> pnl,
       costAvg |-> CostAvg(invested, totalQty),
       pnlPercent |-> PnlPercent(pnl, invested)]

\* for (const asset of Object.keys(lotsByAsset)) { ... result[asset] = {...} }
Summarize(L, pm) ==
  [a \in Range(L.keys) |-> Summary(L.lots[a], L.realised[a], CurrentPrice(pm, a))]

\* computePnL as the function of its two arguments
computePnL(txs, pm) == Summarize(Replay(EmptyLedger, SortedCopy(txs).sorted), pm)

----------------------------------------------------------------------------
(* computeTotals *)

ZeroTotals == [invested |-> 0, value |-> 0, realised |-> 0, unrealised |-> 0, pnl |-> 0]

\* computeTotals with "value += s.invested"
RECURSIVE computeTotalsValueSlip(_, _)
computeTotalsValueSlip(ks, summary) ==
  IF ks = <<>> THEN ZeroTotals
  ELSE LET acc == computeTotalsValueSlip(SubSeq(ks, 1, Len(ks) - 1), summary)
           s == summary[ks[Len(ks)]]
       IN  [invested |-> acc.invested + s.invested,
            value |-> acc.value + s.invested,
            realised |-> acc.realised + s.realised,
            unrealised |-> acc.unrealised + s.unrealised,
            pnl |-> acc.pnl + s.pnl]

\* for (const asset of Object.keys(summary)) { invested += s.invested; ... }
\* over the keys in the order ks
RECURSIVE computeTotals(_, _)
computeTotals(ks, summary) ==
  IF ks = <<>> THEN ZeroTotals
  ELSE LET acc == computeTotals(SubSeq(ks, 1, Len(ks) - 1), summary)
           s == summary[ks[Len(ks)]]
       IN  [invested |-> acc.invested + s.invested,
            value |-> acc.value + s.value,
            realised |-> acc.realised + s.realised,
            unrealised |-> acc.unrealised + s.unrealised,
            pnl |-> acc.pnl + s.pnl]

----------------------------------------------------------------------------
(* One call of computePnL followed by computeTotals, step by step *)

CurLedger == Ledger(keys, lotsByAsset, realisedByAsset)

SetLedger(L) ==
  /\ keys' = L.keys
  /\ lotsByAsset' = L.lots
  /\ realisedByAsset' = L.realised

\* computeMonthlyHistory is not running
NoHistory ==
  /\ months = <<>>
  /\ mIdx = 1
  /\ history = <<>>
  /\ prevPortfolioValue = 0
  /\ prevInvested = 0

\* the assets fetchPrices may be asked about: those of the ledger, the price
\* service knows, and RTX, which it does not know
FetchAssets == Assets \cup {"RTX"}

\* a mapping from assets to prices; NoPrice: the asset is not a key
NoPrices == [a \in FetchAssets |-> NoPrice]

\* the request to the price service has not been made
NoRequest == [kind |-> "none", data |-> <<>>]

\* fetchPrices is not running
NoFetch ==
  /\ fpc = "idle"
  /\ assets = {}
  /\ manual = NoPrices
  /\ fetched = NoPrices
  /\ outcome = NoRequest

\* no key in localStorage
NoItem == [present |-> FALSE, text |-> <<>>]

\* no state update waits for a render
NoUpdate == [set |-> FALSE, value |-> <<>>]

NoPending == [transactions |-> NoUpdate, prices |-> NoUpdate, manualPrices |-> NoUpdate]

\* there is no page
NoHome ==
  /\ hpc = "none"
  /\ storage = NoItem
  /\ manualPrices = NoPrices
  /\ homeSummary = <<>>
  /\ homeHistory = <<>>
  /\ lastUpdated = 0
  /\ pending = NoPending
  /\ inflight = <<>>
  /\ epoch = 0
  /\ events = 0
  /\ storedBefore = NoItem

\* a single call, nothing else going on
OneCall ==
  /\ fixedPrices = FALSE
  /\ calls = 0
  /\ first = <<>>
  /\ NoHistory
  /\ NoFetch
  /\ NoHome

InitCall(txDomain) ==
  /\ transactions \in ListsOf(txDomain)
  /\ prices = [a \in Assets |-> NoPrice]
  /\ sorted = <<>>
  /\ pc = "sort"
  /\ idx = 1
  /\ keys = EmptyLedger.keys
  /\ lotsByAsset = EmptyLedger.lots
  /\ realisedByAsset = EmptyLedger.realised
  /\ qtyToSell = 0
  /\ result = <<>>
  /\ totals = ZeroTotals
  /\ portions = <<>>
  /\ dropped = <<>>
  /\ excess = [a \in Assets |-> 0]
  /\ atSell = EmptyLedger
  /\ OneCall

\* every transaction of the same day: the replay order is the input order
Init == InitCall(TxOf({1}, TxPrices, Quantities))

\* const sorted = [...transactions].sort(...)
Sort ==
  /\ pc = "sort"
  /\ sorted' = SortedCopy(transactions).sorted
  /\ transactions' = SortedCopy(transactions).caller
  /\ idx' = 1
  /\ pc' = "replay"
  /\ UNCHANGED <<prices, keys, lotsByAsset, realisedByAsset,
                 qtyToSell, result, totals, portions, dropped, excess, atSell>>
  /\ UNCHANGED otherVars

\* for (const tx of sorted) { ... if (type === 'BUY') { ... } }
Buy ==
  /\ pc = "replay"
  /\ idx <= Len(sorted)
  /\ sorted[idx].type = "BUY"
  /\ SetLedger(PushLot(CurLedger, sorted[idx]))
  /\ idx' = idx + 1
  /\ UNCHANGED <<transactions, prices, sorted, pc, qtyToSell,
                 result, totals, portions, dropped, excess, atSell>>
  /\ UNCHANGED otherVars

\* for (const tx of sorted) { ... else if (type === 'SELL') { let qtyToSell = quantity;
BeginSell ==
  /\ pc = "replay"
  /\ idx <= Len(sorted)
  /\ sorted[idx].type = "SELL"
  /\ SetLedger(StartSell(CurLedger, sorted[idx]))
  /\ qtyToSell' = sorted[idx].quantity
  /\ atSell' = CurLedger
  /\ pc' = "sell"
  /\ UNCHANGED <<transactions, prices, sorted, idx,
                 result, totals, portions, dropped, excess>>
  /\ UNCHANGED otherVars

\* one iteration of: while (qtyToSell > 0 && lots.length > 0) { ... }
SellIter ==
  /\ pc = "sell"
  /\ SellGoesOn(CurLedger, sorted[idx], qtyToSell)
  /\ LET tx == sorted[idx]
         lot == lotsByAsset[tx.asset][1]
         once == SellOnce(CurLedger, tx, qtyToSell)
         consumed == qtyToSell - once.qtyToSell
     IN  /\ SetLedger(once.ledger)
         /\ qtyToSell' = once.qtyToSell
         /\ portions' = Append(portions,
                          [asset |-> tx.asset, quantity |-> consumed,
                           sellPrice |-> tx.price, lotPrice |-> lot.price])
         /\ dropped' = IF Len(once.ledger.lots[tx.asset]) < Len(lotsByAsset[tx.asset])
                       THEN Append(dropped,
                              [asset |-> tx.asset, quantity |-> lot.quantity - consumed,
                               price |-> lot.price])
                       ELSE dropped
  /\ UNCHANGED <<transactions, prices, sorted, pc, idx, result, totals, excess, atSell>>
  /\ UNCHANGED otherVars

\* the while condition is false: the SELL is over, what is left of qtyToSell
\* is ignored and the for-of loop goes on
EndSell ==
  /\ pc = "sell"
  /\ ~ SellGoesOn(CurLedger, sorted[idx], qtyToSell)
  /\ excess' = [excess EXCEPT ![sorted[idx].asset] = @ + qtyToSell]
  /\ idx' = idx + 1
  /\ pc' = "replay"
  /\ UNCHANGED <<transactions, prices, sorted, keys, lotsByAsset, realisedByAsset,
                 qtyToSell, result, totals, portions, dropped, atSell>>
  /\ UNCHANGED otherVars

\* The for-of loop is over; the summary loop builds result and computePnL
\* returns.  The price map is an argument of the call that nothing reads
\* before this loop: it is drawn here, unless the caller fixed it before.
Summarise ==
  /\ pc = "replay"
  /\ idx > Len(sorted)
  /\ \E pm \in PriceMaps :
       /\ fixedPrices => pm = prices
       /\ prices' = pm
       /\ result' = Summarize(CurLedger, pm)
  /\ pc' = "returned"
  /\ UNCHANGED <<transactions, sorted, idx, keys, lotsByAsset, realisedByAsset,
                 qtyToSell, totals, portions, dropped, excess, atSell>>
  /\ UNCHANGED otherVars

\* computeTotals(summary), on the summary computePnL returned
Totals ==
  /\ pc = "returned"
  /\ totals' = computeTotals(keys, result)
  /\ pc' = "done"
  /\ UNCHANGED <<transactions, prices, sorted, idx, keys, lotsByAsset,
                 realisedByAsset, qtyToSell, result, portions, dropped, excess, atSell>>
  /\ UNCHANGED otherVars

Next ==
  \/ Sort
  \/ Buy
  \/ BeginSell
  \/ SellIter
  \/ EndSell
  \/ Summarise
  \/ Totals

Spec == Init /\ [][Next]_vars

\* the same call on transactions of different days, given in any order
\* (the price of a day is the number of the day, the quantity is 3)
DatedTx ==
  {[date |-> d, asset |-> a, type |-> t, price |-> d, quantity |-> 3] :
     d \in {1, 2, 3}, a \in Assets, t \in Types}

InitDated == InitCall(DatedTx)

SpecDated == InitDated /\ [][Next]_vars

----------------------------------------------------------------------------
(* computeMonthlyHistory.  A date is a day number: days 1 and 2 are two     *)
(* days of the first month, every later day is the first day of a month of *)
(* its own (2024-01-01, 2024-01-15, 2024-02-01, 2024-03-01, ...).          *)

\* tx.date.slice(0, 7)
MonthOf(date) == IF date <= 2 THEN 1 ELSE date - 1

\* Array.prototype.sort() of month keys: ascending
RECURSIVE SortedSeqOf(_)
SortedSeqOf(S) ==
  IF S = {} THEN <<>>
  ELSE LET m == CHOOSE x \in S : \A y \in S : x <= y
       IN  <<m>> \o SortedSeqOf(S \ {m})

\* Array.from(new Set(transactions.map((tx) => tx.date.slice(0, 7)))).sort()
MonthsOf(txs) == SortedSeqOf({MonthOf(txs[i].date) : i \in 1..Len(txs)})

\* a filter that returns the records that pass in the reverse of their order
RECURSIVE FilterReversed(_, _)
FilterReversed(s, keep) ==
  IF s = <<>> THEN <<>>
  ELSE IF Head(s) \in keep THEN FilterReversed(Tail(s), keep) \o <<Head(s)>>
  ELSE FilterReversed(Tail(s), keep)

\* Array.prototype.filter: the records that pass, in their order
RECURSIVE Filter(_, _)
Filter(s, keep) ==
  IF s = <<>> THEN <<>>
  ELSE IF Head(s) \in keep THEN <<Head(s)>> \o Filter(Tail(s), keep)
  ELSE Filter(Tail(s), keep)

\* the filter with === month in place of <= month
OnlyMonth(txs, month) == Filter(txs, {tx \in Range(txs) : MonthOf(tx.date) = month})

\* transactions.filter((tx) => tx.date.slice(0, 7) <= month)
UptoMonth(txs, month) == Filter(txs, {tx \in Range(txs) : MonthOf(tx.date) <= month})

\* Object.keys(summary) of the summary computePnL(txs, .) returns: the assets
\* in the order computePnL met them
KeysOf(txs) == Replay(EmptyLedger, SortedCopy(txs).sorted).keys

\* the period return left a fraction, as the comment above the function has it
PeriodReturnFraction(portfolioValue, prevValue, newContrib) ==
  IF prevValue > 0
  THEN Frac(portfolioValue - prevValue - newContrib, prevValue)
  ELSE Frac(0, 1)

\* if (prevPortfolioValue > 0) periodReturn = (...) / prevPortfolioValue;
\* return: periodReturn * 100
PeriodReturn(portfolioValue, prevValue, newContrib) ==
  IF prevValue > 0
  THEN Frac((portfolioValue - prevValue - newContrib) * 100, prevValue)
  ELSE Frac(0, 1)

\* the body of: for (const month of months) { ... }, on the locals
\* h = [history, prevPortfolioValue, prevInvested]
MonthEntry(h, month, txs, pm) ==
  LET uptoMonth == UptoMonth(txs, month)
      summary == computePnL(uptoMonth, pm)
      tot == computeTotals(KeysOf(uptoMonth), summary)
      portfolioValue == tot.value + tot.realised
      newContrib == tot.invested - h.prevInvested
  IN  [history |-> Append(h.history,
                     [month |-> month,
                      invested |-> tot.invested,
                      value |-> tot.value,
                      realised |-> tot.realised,
                      unrealised |-> tot.unrealised,
                      pnl |-> tot.pnl,
                      return |-> PeriodReturn(portfolioValue, h.prevPortfolioValue,
                                              newContrib)]),
       prevPortfolioValue |-> portfolioValue,
       prevInvested |-> tot.invested]

\* for (const month of months) { ... }
RECURSIVE MonthLoop(_, _, _, _)
MonthLoop(h, ms, txs, pm) ==
  IF ms = <<>> THEN h ELSE MonthLoop(MonthEntry(h, Head(ms), txs, pm), Tail(ms), txs, pm)

\* const history = []; let prevPortfolioValue = 0; let prevInvested = 0;
HistoryLocals == [history |-> <<>>, prevPortfolioValue |-> 0, prevInvested |-> 0]

\* computeMonthlyHistory as the function of its two arguments
computeMonthlyHistory(txs, pm) == MonthLoop(HistoryLocals, MonthsOf(txs), txs, pm).history

pnlVars == <<sorted, idx, keys, lotsByAsset, realisedByAsset, qtyToSell, result,
             totals, portions, dropped, excess, atSell>>

\* computeMonthlyHistory(transactions, prices) is called: the months are
\* collected and the locals initialised
HistStart ==
  /\ pc \in {"history", "done"}
  /\ months' = MonthsOf(transactions)
  /\ mIdx' = 1
  /\ history' = HistoryLocals.history
  /\ prevPortfolioValue' = HistoryLocals.prevPortfolioValue
  /\ prevInvested' = HistoryLocals.prevInvested
  /\ pc' = "months"
  /\ UNCHANGED <<transactions, prices, pnlVars, callVars, fetchVars, homeVars>>

\* one iteration of: for (const month of months) { ... }
HistMonth ==
  /\ pc = "months"
  /\ mIdx <= Len(months)
  /\ LET h == MonthEntry([history |-> history,
                          prevPortfolioValue |-> prevPortfolioValue,
                          prevInvested |-> prevInvested],
                         months[mIdx], transactions, prices)
     IN  /\ history' = h.history
         /\ prevPortfolioValue' = h.prevPortfolioValue
         /\ prevInvested' = h.prevInvested
  /\ mIdx' = mIdx + 1
  /\ UNCHANGED <<transactions, prices, pc, months, pnlVars, callVars, fetchVars, homeVars>>

\* return history;
HistReturn ==
  /\ pc = "months"
  /\ mIdx > Len(months)
  /\ pc' = "historyReturned"
  /\ UNCHANGED <<transactions, prices, pnlVars, callVars, histVars, fetchVars, homeVars>>

NextHistory ==
  \/ HistStart
  \/ HistMonth
  \/ HistReturn

\* the price of the transactions of a day: it falls from day 1 to day 2 and
\* rises after
DayPrice(d) == IF d = 1 THEN 2 ELSE IF d = 2 THEN 1 ELSE d

\* the transactions of a history: the quantity is 3
HistoryTx ==
  {[date |-> d, asset |-> a, type |-> t, price |-> DayPrice(d), quantity |-> 3] :
     d \in {1, 2, 3, 4}, a \in Assets, t \in Types}

\* the price maps of a caller that has a price for BTC
GivenPriceMaps == {pm \in PriceMaps : pm["BTC"] # NoPrice}

\* the locals of computePnL before the call
Uncalled ==
  /\ sorted = <<>>
  /\ idx = 1
  /\ keys = EmptyLedger.keys
  /\ lotsByAsset = EmptyLedger.lots
  /\ realisedByAsset = EmptyLedger.realised
  /\ qtyToSell = 0
  /\ result = <<>>
  /\ totals = ZeroTotals
  /\ portions = <<>>
  /\ dropped = <<>>
  /\ excess = [a \in Assets |-> 0]
  /\ atSell = EmptyLedger

InitHistory ==
  /\ transactions \in ListsOf(HistoryTx)
  /\ prices \in GivenPriceMaps
  /\ pc = "history"
  /\ Uncalled
  /\ fixedPrices = TRUE
  /\ calls = 0
  /\ first = <<>>
  /\ NoHistory
  /\ NoFetch
  /\ NoHome

SpecHistory == InitHistory /\ [][NextHistory]_vars

----------------------------------------------------------------------------
(* The caller calls computePnL, computeTotals and computeMonthlyHistory on   *)
(* its transactions and prices, and then once more on the same arguments.   *)

\* lot state declared outside the function: a call starts from the ledger
\* the call before it left
StaleLedger(L) == L

\* const result = {}; const lotsByAsset = {}; const realisedByAsset = {};
\* declared in the body of the function: every call starts from empty ones
FreshLedger(L) == EmptyLedger

\* the second call begins, with what the first returned kept aside
CallAgain ==
  /\ pc = "historyReturned"
  /\ calls = 0
  /\ calls' = 1
  /\ first' = [result |-> result, totals |-> totals, history |-> history]
  /\ SetLedger(FreshLedger(CurLedger))
  /\ sorted' = <<>>
  /\ idx' = 1
  /\ qtyToSell' = 0
  /\ result' = <<>>
  /\ totals' = ZeroTotals
  /\ portions' = <<>>
  /\ dropped' = <<>>
  /\ excess' = [a \in Assets |-> 0]
  /\ atSell' = EmptyLedger
  /\ pc' = "sort"
  /\ UNCHANGED <<transactions, prices, fixedPrices, histVars, fetchVars, homeVars>>

NextTwice ==
  \/ Next
  \/ NextHistory
  \/ CallAgain

InitTwice ==
  /\ transactions \in ListsOf(DatedTx)
  /\ prices \in GivenPriceMaps
  /\ pc = "sort"
  /\ Uncalled
  /\ fixedPrices = TRUE
  /\ calls = 0
  /\ first = <<>>
  /\ NoHistory
  /\ NoFetch
  /\ NoHome

SpecTwice == InitTwice /\ [][NextTwice]_vars

----------------------------------------------------------------------------
(* fetchPrices(assets, manual) *)

\* const priceIds: the identifier the price service knows an asset by
priceIds == [a \in Assets |-> IF a = "BTC" THEN "bitcoin" ELSE "ethereum"]

Ids == {priceIds[a] : a \in Assets}

\* assets.map((a) => priceIds[a]).filter(Boolean)
IdsOf(as) == {priceIds[a] : a \in as \cap DOMAIN priceIds}

\* what the service may have under an identifier: nothing, an object without
\* eur, an object with a price in eur
DataEntries ==
  {[entry |-> FALSE, eur |-> NoPrice], [entry |-> TRUE, eur |-> NoPrice]}
    \cup {[entry |-> TRUE, eur |-> p] : p \in MarketPrices}

\* what becomes of the request: fetch() rejects; res.json() rejects; the body
\* is the JSON null; the body is an object
Outcomes ==
  {[kind |-> k, data |-> <<>>] : k \in {"fails", "unreadable", "null"}}
    \cup {[kind |-> "data", data |-> d] : d \in [Ids -> DataEntries]}

\* the prices the caller may override by hand
ManualValues == {0, 3}

\* assets.forEach((asset) => { const id = priceIds[asset];
\*   if (id && data[id] && data[id].eur !== undefined) prices[asset] = data[id].eur; })
ReadData(pr, as, data) ==
  [a \in FetchAssets |->
     IF /\ a \in as
        /\ a \in DOMAIN priceIds
        /\ data[priceIds[a]].entry
        /\ data[priceIds[a]].eur # NoPrice
     THEN data[priceIds[a]].eur
     ELSE pr[a]]

\* the manual prices written first, the prices of the service over them
ManualUnder(pr, man) ==
  [a \in FetchAssets |-> IF pr[a] # NoPrice THEN pr[a] ELSE man[a]]

\* for (const asset of Object.keys(manual)) { prices[asset] = manual[asset]; }
ManualOver(pr, man) ==
  [a \in FetchAssets |-> IF man[a] # NoPrice THEN man[a] ELSE pr[a]]

\* the try block from "await res.json()" on: what prices is after it
AfterResponse(pr, as, o) ==
  IF o.kind = "data" THEN ReadData(pr, as, o.data) ELSE pr

\* fetchPrices as the function of its arguments and of what becomes of the
\* request
fetchPricesResult(as, man, o) ==
  ManualOver(IF IdsOf(as) # {} THEN AfterResponse(NoPrices, as, o) ELSE NoPrices, man)

\* fetchPrices touches nothing of the ledger
notFetchVars == <<transactions, prices, pc, pnlVars, callVars, histVars, homeVars>>

\* const ids = ...; const prices = {}; if (ids.length > 0) { try { ... await fetch(url)
FetchCall ==
  /\ fpc = "call"
  /\ fetched' = NoPrices
  /\ fpc' = IF IdsOf(assets) # {} THEN "fetch" ELSE "manual"
  /\ UNCHANGED <<assets, manual, outcome>>
  /\ UNCHANGED notFetchVars

\* fetch(url) rejects: catch (err) { console.error(...) }
RequestFails ==
  /\ fpc = "fetch"
  /\ outcome' = [kind |-> "fails", data |-> <<>>]
  /\ fpc' = "manual"
  /\ UNCHANGED <<assets, manual, fetched>>
  /\ UNCHANGED notFetchVars

\* fetch(url) resolves to a response: await res.json()
RequestAnswers ==
  /\ fpc = "fetch"
  /\ fpc' = "json"
  /\ UNCHANGED <<assets, manual, fetched, outcome>>
  /\ UNCHANGED notFetchVars

\* res.json() rejects, or resolves to null and data[id] throws: catch (err)
ResponseUnread ==
  /\ fpc = "json"
  /\ \E k \in {"unreadable", "null"} : outcome' = [kind |-> k, data |-> <<>>]
  /\ fetched' = AfterResponse(fetched, assets, outcome')
  /\ fpc' = "manual"
  /\ UNCHANGED <<assets, manual>>
  /\ UNCHANGED notFetchVars

\* res.json() resolves to an object: assets.forEach(...)
ResponseRead ==
  /\ fpc = "json"
  /\ \E d \in [Ids -> DataEntries] : outcome' = [kind |-> "data", data |-> d]
  /\ fetched' = AfterResponse(fetched, assets, outcome')
  /\ fpc' = "manual"
  /\ UNCHANGED <<assets, manual>>
  /\ UNCHANGED notFetchVars

\* for (const asset of Object.keys(manual)) { ... } return prices;
ApplyManual ==
  /\ fpc = "manual"
  /\ fetched' = ManualOver(fetched, manual)
  /\ fpc' = "resolved"
  /\ UNCHANGED <<assets, manual, outcome>>
  /\ UNCHANGED notFetchVars

NextFetch ==
  \/ FetchCall
  \/ RequestFails
  \/ RequestAnswers
  \/ ResponseUnread
  \/ ResponseRead
  \/ ApplyManual

InitFetch ==
  /\ transactions = <<>>
  /\ prices = [a \in Assets |-> NoPrice]
  /\ pc = "idle"
  /\ Uncalled
  /\ fixedPrices = FALSE
  /\ calls = 0
  /\ first = <<>>
  /\ NoHistory
  /\ NoHome
  /\ fpc = "call"
  /\ assets \in SUBSET FetchAssets
  /\ manual \in [FetchAssets -> ManualValues \cup {NoPrice}]
  /\ fetched = NoPrices
  /\ outcome = NoRequest

SpecFetch == InitFetch /\ [][NextFetch]_vars

----------------------------------------------------------------------------
(* The Home page.  A handler queues its state updates; React renders, and    *)
(* runs the clean-ups and the effects whose dependencies changed, before     *)
(* anything else runs: the next handler or the continuation of a fetch.      *)

\* how many times the user acts
MaxEvents == 3

\* JSON.stringify of a transaction
Encode(tx) == <<tx.date, tx.asset, tx.type, tx.price, tx.quantity>>

\* JSON.parse of the text of a transaction
Decode(t) ==
  [date |-> t[1], asset |-> t[2], type |-> t[3], price |-> t[4], quantity |-> t[5]]

\* JSON.stringify(transactions)
Stringify(txs) == [kind |-> "array", items |-> [i \in 1..Len(txs) |-> Encode(txs[i])]]

\* a parser that returns the elements of an array last first
JsonParseReversed(text) ==
  [i \in 1..Len(text.items) |-> Decode(text.items[Len(text.items) + 1 - i])]

\* JSON.parse of the text of an array
JsonParse(text) == [i \in 1..Len(text.items) |-> Decode(text.items[i])]

\* JSON.parse(text) throws
Throws(text) == text.kind = "invalid"

\* Array.isArray(JSON.parse(text))
IsArray(text) == text.kind = "array"

\* localStorage.setItem('wavDcaTransactions', JSON.stringify(transactions))
Item(txs) == [present |-> TRUE, text |-> Stringify(txs)]

\* the transactions the user enters
HomeTx == {tx \in TxOf({1}, {2}, {3}) : tx.asset = "BTC" <=> tx.type = "BUY"}

\* the lists localStorage may hold when the page is opened
StoredLists ==
  {<<>>} \cup {<<tx>> : tx \in HomeTx}
    \cup {<<p[1], p[2]>> : p \in {q \in HomeTx \X HomeTx : q[1] # q[2]}}

\* what may become of the requests of the page: the request fails, or the
\* service has a price for every identifier
HomeOutcomes ==
  {o \in Outcomes :
     \/ o.kind = "fails"
     \/ o.kind = "data" /\ \A id \in Ids : o.data[id].eur # NoPrice}

\* the files the user may import: not JSON, a JSON object, JSON arrays
ImportFiles ==
  {[kind |-> "invalid", items |-> <<>>], [kind |-> "object", items |-> <<>>],
   Stringify(<<>>)}
    \cup {Stringify(<<tx>>) : tx \in {x \in HomeTx : x.asset = "ETH"}}

\* useState({ RTX: 0.0042, ... })
InitialManual == [NoPrices EXCEPT !["RTX"] = 3]

\* Array.from(new Set(transactions.map((tx) => tx.asset)))
AssetsIn(txs) == {txs[i].asset : i \in 1..Len(txs)}

\* an effect that is left without its clean-up
CleanupNothing(f) == f

\* return () => { cancelled = true; };
Cleanup(f) == [f EXCEPT !.cancelled = TRUE]

\* the price-fetch effect and, before it, the clean-up of its last run: the
\* calls in flight after it.  A call is kept with what it was started with.
PriceEffect(fl, txs, man, ep) ==
  LET cleaned == [i \in 1..Len(fl) |-> Cleanup(fl[i])]
  IN  IF AssetsIn(txs) = {} THEN cleaned
      ELSE Append(cleaned,
             [assets |-> AssetsIn(txs), manual |-> man, transactions |-> txs,
              epoch |-> ep, cancelled |-> FALSE])

\* the sequence s without its i-th element
RemoveAt(s, i) == SubSeq(s, 1, i - 1) \o SubSeq(s, i + 1, Len(s))

Update(v) == [set |-> TRUE, value |-> v]

\* the page touches nothing of a call of computePnL or fetchPrices
notHomeVars == <<pc, pnlVars, callVars, histVars, fetchVars>>

\* the first render and its effects: the load effect queues the stored list,
\* the persist effect stores the list of this render, which is empty, the
\* price-fetch effect finds no asset and queues setPrices({}), the last effect
\* computes the summary and the history
Mount ==
  /\ hpc = "unmounted"
  /\ pending' = [transactions |-> IF storage.present /\ ~ Throws(storage.text)
                                  THEN Update(JsonParse(storage.text))
                                  ELSE NoUpdate,
                 prices |-> Update(NoPrices),
                 manualPrices |-> NoUpdate]
  /\ storage' = Item(transactions)
  /\ epoch' = epoch + 1
  /\ inflight' = PriceEffect(inflight, transactions, manualPrices, epoch + 1)
  /\ homeSummary' = computePnL(transactions, prices)
  /\ homeHistory' = computeMonthlyHistory(transactions, prices)
  /\ hpc' = "mounted"
  /\ UNCHANGED <<transactions, prices, manualPrices, lastUpdated, events, storedBefore>>
  /\ UNCHANGED notHomeVars

\* a render with the queued updates, and the effects whose dependencies
\* changed, in their order: persist, price fetch (after its clean-up; with no
\* asset it sets the prices to {} and React renders again), recompute
Render ==
  /\ hpc = "mounted"
  /\ pending # NoPending
  /\ LET txs == IF pending.transactions.set THEN pending.transactions.value
                ELSE transactions
         man == IF pending.manualPrices.set THEN pending.manualPrices.value
                ELSE manualPrices
         pr == IF pending.prices.set THEN pending.prices.value ELSE prices
         fetchAgain == pending.transactions.set \/ pending.manualPrices.set
         pr2 == IF fetchAgain /\ AssetsIn(txs) = {} THEN NoPrices ELSE pr
         recompute == pending.transactions.set \/ pending.prices.set \/ pr2 # pr
     IN  /\ transactions' = txs
         /\ manualPrices' = man
         /\ prices' = pr2
         /\ storage' = IF pending.transactions.set THEN Item(txs) ELSE storage
         /\ inflight' = IF fetchAgain THEN PriceEffect(inflight, txs, man, epoch + 1)
                        ELSE inflight
         /\ epoch' = IF fetchAgain THEN epoch + 1 ELSE epoch
         /\ homeSummary' = IF recompute THEN computePnL(txs, pr2) ELSE homeSummary
         /\ homeHistory' = IF recompute THEN computeMonthlyHistory(txs, pr2)
                           ELSE homeHistory
  /\ pending' = NoPending
  /\ UNCHANGED <<hpc, lastUpdated, events, storedBefore>>
  /\ UNCHANGED notHomeVars

\* the page is mounted, nothing waits for a render, the user may act
Idle == hpc = "mounted" /\ pending = NoPending /\ events < MaxEvents

\* handleAddTransaction
AddTransaction ==
  /\ Idle
  /\ \E tx \in HomeTx :
       pending' = [pending EXCEPT !.transactions = Update(Append(transactions, tx))]
  /\ events' = events + 1
  /\ UNCHANGED <<transactions, prices, hpc, storage, manualPrices, homeSummary,
                 homeHistory, lastUpdated, inflight, epoch, storedBefore>>
  /\ UNCHANGED notHomeVars

\* handleDeleteTransaction
DeleteTransaction ==
  /\ Idle
  /\ \E index \in 1..Len(transactions) :
       pending' = [pending EXCEPT !.transactions = Update(RemoveAt(transactions, index))]
  /\ events' = events + 1
  /\ UNCHANGED <<transactions, prices, hpc, storage, manualPrices, homeSummary,
                 homeHistory, lastUpdated, inflight, epoch, storedBefore>>
  /\ UNCHANGED notHomeVars

\* handleImport and reader.onload
Import ==
  /\ Idle
  /\ \E file \in ImportFiles :
       pending' = IF ~ Throws(file) /\ IsArray(file)
                  THEN [pending EXCEPT !.transactions = Update(JsonParse(file))]
                  ELSE pending
  /\ events' = events + 1
  /\ UNCHANGED <<transactions, prices, hpc, storage, manualPrices, homeSummary,
                 homeHistory, lastUpdated, inflight, epoch, storedBefore>>
  /\ UNCHANGED notHomeVars

\* handleClear: setSummary({}) and setHistory([]) are what the recompute
\* effect of the render that follows computes
Clear ==
  /\ Idle
  /\ \E confirm \in BOOLEAN :
       IF confirm
       THEN /\ pending' = [pending EXCEPT !.transactions = Update(<<>>),
                                          !.prices = Update(NoPrices)]
            /\ storage' = NoItem
       ELSE UNCHANGED <<pending, storage>>
  /\ events' = events + 1
  /\ UNCHANGED <<transactions, prices, hpc, manualPrices, homeSummary,
                 homeHistory, lastUpdated, inflight, epoch, storedBefore>>
  /\ UNCHANGED notHomeVars

\* onChange of a manual price input
SetManualPrice ==
  /\ Idle
  /\ \E value \in ManualValues :
       pending' = [pending EXCEPT
                     !.manualPrices = Update([manualPrices EXCEPT !["RTX"] = value])]
  /\ events' = events + 1
  /\ UNCHANGED <<transactions, prices, hpc, storage, manualPrices, homeSummary,
                 homeHistory, lastUpdated, inflight, epoch, storedBefore>>
  /\ UNCHANGED notHomeVars

\* the refresh button: setManualPrices((prev) => ({ ...prev }))
RefreshPrices ==
  /\ Idle
  /\ pending' = [pending EXCEPT !.manualPrices = Update(manualPrices)]
  /\ events' = events + 1
  /\ UNCHANGED <<transactions, prices, hpc, storage, manualPrices, homeSummary,
                 homeHistory, lastUpdated, inflight, epoch, storedBefore>>
  /\ UNCHANGED notHomeVars

\* a call of fetchPrices resolves:
\* if (!cancelled) { setPrices(pr); setLastUpdated(...); }
FetchResponds ==
  /\ hpc = "mounted"
  /\ pending = NoPending
  /\ \E i \in 1..Len(inflight) :
       /\ inflight' = RemoveAt(inflight, i)
       /\ IF ~ inflight[i].cancelled
          THEN /\ \E o \in HomeOutcomes :
                    pending' = [pending EXCEPT !.prices =
                      Update(fetchPricesResult(inflight[i].assets, inflight[i].manual, o))]
               /\ lastUpdated' = inflight[i].epoch
          ELSE UNCHANGED <<pending, lastUpdated>>
  /\ UNCHANGED <<transactions, prices, hpc, storage, manualPrices, homeSummary,
                 homeHistory, epoch, events, storedBefore>>
  /\ UNCHANGED notHomeVars

NextHome ==
  \/ Mount
  \/ Render
  \/ AddTransaction
  \/ DeleteTransaction
  \/ Import
  \/ Clear
  \/ SetManualPrice
  \/ RefreshPrices
  \/ FetchResponds

InitHome ==
  /\ transactions = <<>>
  /\ prices = NoPrices
  /\ pc = "idle"
  /\ Uncalled
  /\ fixedPrices = FALSE
  /\ calls = 0
  /\ first = <<>>
  /\ NoHistory
  /\ NoFetch
  /\ hpc = "unmounted"
  /\ storage \in {NoItem} \cup {Item(txs) : txs \in StoredLists}
  /\ storedBefore = storage
  /\ manualPrices = InitialManual
  /\ homeSummary = <<>>
  /\ homeHistory = <<>>
  /\ lastUpdated = 0
  /\ pending = NoPending
  /\ inflight = <<>>
  /\ epoch = 0
  /\ events = 0

SpecHome == InitHome /\ [][NextHome]_vars

----------------------------------------------------------------------------
(* Sums the properties are stated with *)

\* the sum of a sequence of numbers
RECURSIVE SumSeq(_)
SumSeq(s) == IF s = <<>> THEN 0 ELSE Head(s) + SumSeq(Tail(s))

Max(a, b) == IF a >= b THEN a ELSE b

\* the quantity of the transactions of the given type and asset in s
QtyOf(s, type, asset) ==
  SumSeq([i \in 1..Len(s) |->
            IF s[i].type = type /\ s[i].asset = asset THEN s[i].quantity ELSE 0])

\* the quantity of the residues discarded with the removed lots of an asset
DroppedQty(asset) ==
  SumSeq([i \in 1..Len(dropped) |->
            IF dropped[i].asset = asset THEN dropped[i].quantity ELSE 0])

\* the transactions the for-of loop has finished with
Replayed == SubSeq(sorted, 1, idx - 1)

Returned == pc \in {"returned", "done"}

----------------------------------------------------------------------------
(* C1 *)

\* C1 as stated: for every asset of the result, the reported quantity is the
\* total bought minus the total sold of that asset, floored at 0.
C1_AsStated ==
  Returned =>
    \A a \in DOMAIN result :
      result[a].quantity =
        Max(0, QtyOf(transactions, "BUY", a) - QtyOf(transactions, "SELL", a))

\* C1 amended: the reported quantity is the total bought minus the total sold,
\* plus the sell quantity discarded because a SELL exceeded what was open when
\* it was replayed, minus the residues (each between 0 and 1e-8) of the lots
\* that lots.shift() removed; it is never negative.  The same balance holds of
\* the open lots between any two transactions of the replay.
C1_QuantityBalance ==
  /\ \A i \in 1..Len(dropped) : dropped[i].quantity >= 0 /\ dropped[i].quantity <= Eps
  /\ \A a \in Assets : excess[a] >= 0
  /\ pc = "replay" =>
       \A a \in Assets :
         TotalQty(lotsByAsset[a]) =
           QtyOf(Replayed, "BUY", a) - QtyOf(Replayed, "SELL", a)
             + excess[a] - DroppedQty(a)
  /\ Returned =>
       \A a \in DOMAIN result :
         /\ result[a].quantity >= 0
         /\ result[a].quantity =
              QtyOf(transactions, "BUY", a) - QtyOf(transactions, "SELL", a)
                + excess[a] - DroppedQty(a)

\* a SELL was over-sold, a later BUY is still open at the end
C1_Witness ==
  /\ pc = "done"
  /\ \E a \in DOMAIN result : excess[a] > 0 /\ result[a].quantity > 0

----------------------------------------------------------------------------
(* C2 *)

\* what selling every lot of the queue at the given price realises
GainOfAll(lots, price) ==
  SumSeq([i \in 1..Len(lots) |-> lots[i].quantity * (price - lots[i].price)])

\* the for-of loop has just finished a SELL that asked for more than was open
JustOverSold ==
  /\ pc = "replay"
  /\ idx > 1
  /\ sorted[idx - 1].type = "SELL"
  /\ sorted[idx - 1].quantity > TotalQty(atSell.lots[sorted[idx - 1].asset])

\* C2: no lot ever has a negative quantity.  A SELL that asks for more than
\* the open quantity of its asset (none at all included) empties the queue,
\* realises exactly the gain of the lots that were open, leaves the excess in
\* qtyToSell where nothing reads it again, and touches no other asset; the
\* replay goes on, and computePnL returns only after the last transaction.
C2_TolerantOverSell ==
  /\ \A a \in Assets : \A i \in 1..Len(lotsByAsset[a]) : lotsByAsset[a][i].quantity >= 0
  /\ JustOverSold =>
       LET tx == sorted[idx - 1]
       IN  /\ lotsByAsset[tx.asset] = <<>>
           /\ realisedByAsset[tx.asset] =
                atSell.realised[tx.asset] + GainOfAll(atSell.lots[tx.asset], tx.price)
           /\ qtyToSell = tx.quantity - TotalQty(atSell.lots[tx.asset])
           /\ \A b \in Assets \ {tx.asset} :
                /\ lotsByAsset[b] = atSell.lots[b]
                /\ realisedByAsset[b] = atSell.realised[b]
  /\ pc \in {"replay", "sell"} => idx <= Len(sorted) + 1
  /\ Returned => Len(sorted) = Len(transactions) /\ idx = Len(transactions) + 1

\* an over-sold SELL that found a lot to consume, with a transaction still to come
C2_Witness ==
  /\ JustOverSold
  /\ atSell.lots[sorted[idx - 1].asset] # <<>>
  /\ idx <= Len(sorted)

----------------------------------------------------------------------------
(* C3 *)

\* sum over the consumed portions of an asset of quantity x (sell price - lot price)
PortionGain(asset) ==
  SumSeq([i \in 1..Len(portions) |->
            IF portions[i].asset = asset
            THEN portions[i].quantity * (portions[i].sellPrice - portions[i].lotPrice)
            ELSE 0])

PortionQty(asset) ==
  SumSeq([i \in 1..Len(portions) |->
            IF portions[i].asset = asset THEN portions[i].quantity ELSE 0])

\* the input is one BUY followed, in replay order, by one SELL of the same
\* asset and quantity
BuyThenFullSell ==
  /\ Len(sorted) = 2
  /\ sorted[1].type = "BUY"
  /\ sorted[2].type = "SELL"
  /\ sorted[1].asset = sorted[2].asset
  /\ sorted[1].quantity = sorted[2].quantity

\* C3: the realised accumulator of an asset is the sum, over the portions its
\* SELLs consumed, of quantity x (sell price - acquisition price of the lot);
\* the portions of an asset add up to what its SELLs asked for minus the
\* discarded excess; the result reports that accumulator; and one BUY of q at
\* p1 followed by one SELL of q at p2 realises q x (p2 - p1).
C3_Realised ==
  /\ \A a \in Assets : realisedByAsset[a] = PortionGain(a)
  /\ \A i \in 1..Len(portions) :
       /\ portions[i].quantity >= 0
       /\ \E j \in 1..Len(sorted) :
            /\ sorted[j].type = "BUY"
            /\ sorted[j].asset = portions[i].asset
            /\ sorted[j].price = portions[i].lotPrice
       /\ \E j \in 1..Len(sorted) :
            /\ sorted[j].type = "SELL"
            /\ sorted[j].asset = portions[i].asset
            /\ sorted[j].price = portions[i].sellPrice
  /\ pc = "replay" =>
       \A a \in Assets : PortionQty(a) = QtyOf(Replayed, "SELL", a) - excess[a]
  /\ Returned => \A a \in DOMAIN result : result[a].realised = PortionGain(a)
  /\ Returned /\ BuyThenFullSell =>
       result[sorted[1].asset].realised =
         sorted[1].quantity * (sorted[2].price - sorted[1].price)

\* a BUY then a full SELL at another price has been summarised
C3_Witness ==
  /\ pc = "done"
  /\ BuyThenFullSell
  /\ sorted[1].price # sorted[2].price
  /\ result[sorted[1].asset].realised # 0

----------------------------------------------------------------------------
(* C4 *)

\* what one step may do to the queue of asset a
FifoStep(a) ==
  LET old == lotsByAsset[a]
      new == lotsByAsset'[a]
  IN  \/ new = old
      \/ /\ pc = "replay"
         /\ idx <= Len(sorted)
         /\ sorted[idx].type = "BUY"
         /\ sorted[idx].asset = a
         /\ new = Append(old, [quantity |-> sorted[idx].quantity,
                               price |-> sorted[idx].price])
      \/ /\ pc = "sell"
         /\ sorted[idx].asset = a
         /\ old # <<>>
         /\ \/ new = Tail(old)
            \/ /\ new # <<>>
               /\ Tail(new) = Tail(old)
               /\ new[1].price = old[1].price
               /\ new[1].quantity < old[1].quantity

\* C4: a step changes a queue only by appending the lot of a BUY of that asset
\* at the tail, or, during a SELL of that asset, by reducing or removing the
\* head; so lots are consumed oldest first, their order never changes, and a
\* SELL leaves the queues of the other assets as they are.
C4_Fifo == [][\A a \in Assets : FifoStep(a)]_vars

\* a SELL has finished with the oldest lot and consumed from the next one
C4_Witness ==
  /\ pc = "sell"
  /\ Len(portions) = 2
  /\ Len(dropped) >= 1
  /\ portions[1].asset = portions[2].asset
  /\ portions[1].sellPrice = sorted[idx].price
  /\ idx = 3

----------------------------------------------------------------------------
(* C5 *)

Perms(n) == {f \in [1..n -> 1..n] : \A i, j \in 1..n : i # j => f[i] # f[j]}

\* the list s in the order f
Permuted(s, f) == [i \in 1..Len(s) |-> s[f[i]]]

\* the list s with the records at i and j exchanged
Swapped(s, i, j) ==
  [k \in 1..Len(s) |-> IF k = i THEN s[j] ELSE IF k = j THEN s[i] ELSE s[k]]

DistinctDates(s) == \A i, j \in 1..Len(s) : i # j => s[i].date # s[j].date

\* out is the list in, in ascending date order, records of the same date in
\* the order they have in the list in
StablySorted(out, in) ==
  /\ Len(out) = Len(in)
  /\ \E f \in Perms(Len(in)) :
       /\ out = Permuted(in, f)
       /\ \A i, j \in 1..Len(in) :
            i < j => \/ out[i].date < out[j].date
                     \/ out[i].date = out[j].date /\ f[i] < f[j]

\* the records at i < j have the same date and different assets
SameDayOtherAsset(s, i, j) ==
  /\ i < j
  /\ s[i].date = s[j].date
  /\ s[i].asset # s[j].asset

\* no record between i and j has that date and the asset of one of the two
NothingOfTheirsBetween(s, i, j) ==
  \A k \in (i + 1)..(j - 1) :
    ~ (s[k].date = s[i].date /\ s[k].asset \in {s[i].asset, s[j].asset})

SortedAndPermutable ==
  /\ pc # "sort" => StablySorted(sorted, transactions)
  /\ pc = "returned" =>
       /\ result = computePnL(transactions, prices)
       /\ DistinctDates(transactions) =>
            \A f \in Perms(Len(transactions)) :
              computePnL(Permuted(transactions, f), prices) = result

\* C5 as stated: the replay order is the stable date order of the input; a
\* permutation of an input of pairwise distinct dates gives the same summary;
\* and so does exchanging any two records of the same date and of different
\* assets.
C5_AsStated ==
  /\ SortedAndPermutable
  /\ pc = "returned" =>
       \A i, j \in 1..Len(transactions) :
         SameDayOtherAsset(transactions, i, j) =>
           computePnL(Swapped(transactions, i, j), prices) = result

\* C5 amended: the same, the exchanged records being two between which the
\* input holds no record of that date and of the asset of either (two adjacent
\* records in particular).
C5_SortStable ==
  /\ SortedAndPermutable
  /\ pc = "returned" =>
       \A i, j \in 1..Len(transactions) :
         SameDayOtherAsset(transactions, i, j)
           /\ NothingOfTheirsBetween(transactions, i, j) =>
             computePnL(Swapped(transactions, i, j), prices) = result

\* a summary of three transactions of different days given out of order,
\* one of them a SELL that realised something
C5_Witness ==
  /\ pc = "returned"
  /\ Len(transactions) = 3
  /\ DistinctDates(transactions)
  /\ sorted # transactions
  /\ \E a \in DOMAIN result : result[a].realised # 0

----------------------------------------------------------------------------
(* C6 *)

\* sum of quantity x price over a queue of lots
CostOf(lots) == SumSeq([i \in 1..Len(lots) |-> lots[i].quantity * lots[i].price])

\* what the BUYs of an asset paid
BoughtCost(asset) ==
  SumSeq([i \in 1..Len(transactions) |->
            IF transactions[i].type = "BUY" /\ transactions[i].asset = asset
            THEN transactions[i].quantity * transactions[i].price ELSE 0])

\* the acquisition cost of the portions of an asset that its SELLs consumed
ConsumedCost(asset) ==
  SumSeq([i \in 1..Len(portions) |->
            IF portions[i].asset = asset
            THEN portions[i].quantity * portions[i].lotPrice ELSE 0])

\* the acquisition cost of the residues discarded with the removed lots
DroppedCost(asset) ==
  SumSeq([i \in 1..Len(dropped) |->
            IF dropped[i].asset = asset
            THEN dropped[i].quantity * dropped[i].price ELSE 0])

\* the fraction f is the quotient n / d
IsQuotient(f, n, d) == ~ f.null /\ f.den # 0 /\ f.num * d = n * f.den

\* C6: for every asset of the result, invested is the sum of quantity x price
\* over the final open lots (what the BUYs paid, less the cost of what the
\* SELLs consumed and of the discarded residues) and is not negative; value is
\* currentPrice x quantity, unrealised is value - invested, pnl is realised +
\* unrealised, costAvg is invested / quantity, or 0 when quantity is 0.
C6_SummaryFields ==
  Returned =>
    \A a \in DOMAIN result :
      LET r == result[a]
      IN  /\ r.invested = CostOf(lotsByAsset[a])
          /\ r.invested = BoughtCost(a) - ConsumedCost(a) - DroppedCost(a)
          /\ r.invested >= 0
          /\ r.value = r.currentPrice * r.quantity
          /\ r.unrealised = r.value - r.invested
          /\ r.pnl = r.realised + r.unrealised
          /\ IF r.quantity = 0 THEN IsQuotient(r.costAvg, 0, 1)
             ELSE IsQuotient(r.costAvg, r.invested, r.quantity)

\* an asset is summarised with two open lots bought at different prices, and
\* a market price
C6_Witness ==
  /\ pc = "done"
  /\ \E a \in DOMAIN result :
       /\ Len(lotsByAsset[a]) >= 2
       /\ lotsByAsset[a][1].price # lotsByAsset[a][2].price
       /\ prices[a] # NoPrice
       /\ result[a].unrealised # 0

----------------------------------------------------------------------------
(* C7 *)

\* C7: pnlPercent is null exactly when invested is 0; otherwise it is the
\* quotient pnl / invested x 100; no quotient of the summary divides by 0.
C7_PnlPercent ==
  Returned =>
    \A a \in DOMAIN result :
      LET r == result[a]
      IN  /\ r.pnlPercent.null <=> r.invested = 0
          /\ ~ r.pnlPercent.null => IsQuotient(r.pnlPercent, r.pnl * 100, r.invested)
          /\ r.pnlPercent.den # 0
          /\ r.costAvg.den # 0

\* one asset is summarised with nothing invested and a gain or a loss, the
\* other with a negative percentage
C7_Witness ==
  /\ pc = "done"
  /\ \E a, b \in DOMAIN result :
       /\ result[a].pnlPercent.null
       /\ result[a].pnl # 0
       /\ ~ result[b].pnlPercent.null
       /\ result[b].pnlPercent.num < 0

----------------------------------------------------------------------------
(* C8 *)

\* C8: an asset the price map has no entry for is reported with currentPrice
\* 0, value 0 and unrealised = - invested, and computePnL returns; the
\* quantity, invested and realised of every asset are those the call returns
\* with any other price map.
C8_MissingPrice ==
  /\ Returned =>
       \A a \in DOMAIN result :
         prices[a] = NoPrice =>
           /\ result[a].currentPrice = 0
           /\ result[a].value = 0
           /\ result[a].unrealised = 0 - result[a].invested
  /\ pc = "returned" =>
       \A pm \in PriceMaps :
         LET other == computePnL(transactions, pm)
         IN  /\ DOMAIN other = DOMAIN result
             /\ \A a \in DOMAIN result :
                  /\ other[a].quantity = result[a].quantity
                  /\ other[a].invested = result[a].invested
                  /\ other[a].realised = result[a].realised

\* an open position without a price next to one with a price
C8_Witness ==
  /\ pc = "done"
  /\ \E a, b \in DOMAIN result :
       /\ prices[a] = NoPrice
       /\ result[a].invested > 0
       /\ prices[b] # NoPrice
       /\ result[b].value > 0

----------------------------------------------------------------------------
(* C9 *)

AssetsOf(s, types) == {s[i].asset : i \in {j \in 1..Len(s) : s[j].type \in types}}

\* C9 as stated: the assets of the result are the assets that have a BUY.
C9_AsStated == Returned => DOMAIN result = AssetsOf(transactions, {"BUY"})

\* C9 amended: the assets of the result are the assets that have at least one
\* transaction, BUY or SELL; an asset without open lots is there with quantity
\* 0, invested 0 and its realised accumulator.
C9_ResultKeys ==
  /\ pc = "replay" => Range(keys) = AssetsOf(Replayed, Types)
  /\ Returned =>
       /\ DOMAIN result = AssetsOf(transactions, Types)
       /\ \A a \in DOMAIN result :
            lotsByAsset[a] = <<>> =>
              /\ result[a].quantity = 0
              /\ result[a].invested = 0
              /\ result[a].realised = realisedByAsset[a]

\* one asset was only ever sold, the other was bought and sold out at a gain
\* or a loss
C9_Witness ==
  /\ pc = "done"
  /\ \E a, b \in DOMAIN result :
       /\ a \notin AssetsOf(transactions, {"BUY"})
       /\ b \in AssetsOf(transactions, {"BUY"})
       /\ result[b].quantity = 0
       /\ result[b].realised # 0

----------------------------------------------------------------------------
(* C10 *)

\* the sum of the function f over the set S
RECURSIVE SumOver(_, _)
SumOver(S, f) ==
  IF S = {} THEN 0
  ELSE LET x == CHOOSE y \in S : TRUE IN f[x] + SumOver(S \ {x}, f)

\* C10: each total is the sum of its field over the summaries; the totals of
\* an empty summary are all 0; iterating the assets in another order gives
\* the same totals.
C10_Totals ==
  pc = "done" =>
    LET A == DOMAIN result
    IN  /\ totals.invested = SumOver(A, [a \in A |-> result[a].invested])
        /\ totals.value = SumOver(A, [a \in A |-> result[a].value])
        /\ totals.realised = SumOver(A, [a \in A |-> result[a].realised])
        /\ totals.unrealised = SumOver(A, [a \in A |-> result[a].unrealised])
        /\ totals.pnl = SumOver(A, [a \in A |-> result[a].pnl])
        /\ A = {} => totals = ZeroTotals
        /\ \A f \in Perms(Len(keys)) : computeTotals(Permuted(keys, f), result) = totals

\* totals of two assets whose fields all differ from one another
C10_Witness ==
  /\ pc = "done"
  /\ Len(keys) = 2
  /\ result[keys[1]].invested # result[keys[2]].invested
  /\ totals.invested # totals.value
  /\ totals.realised # 0
  /\ totals.pnl # totals.unrealised

----------------------------------------------------------------------------
(* C12 *)

HistoryReturned == pc = "historyReturned"

\* the months of the caller's transactions
MonthSet == {MonthOf(transactions[i].date) : i \in 1..Len(transactions)}

\* the first n of the caller's transactions that are of month m or earlier,
\* in the caller's order
RECURSIVE FirstUpTo(_, _)
FirstUpTo(n, m) ==
  IF n = 0 THEN <<>>
  ELSE IF MonthOf(transactions[n].date) <= m
       THEN Append(FirstUpTo(n - 1, m), transactions[n])
       ELSE FirstUpTo(n - 1, m)

\* T_m: the caller's transactions of month m or earlier
AtOrBefore(m) == FirstUpTo(Len(transactions), m)

\* the five totals of a history entry
TotalsOfEntry(e) ==
  [invested |-> e.invested, value |-> e.value, realised |-> e.realised,
   unrealised |-> e.unrealised, pnl |-> e.pnl]

\* computeTotals(computePnL(txs, prices))
TotalsOfList(txs) == computeTotals(KeysOf(txs), computePnL(txs, prices))

\* C12: the history has one entry per distinct month of the transactions, in
\* strictly ascending month order (none for no transaction); the totals of the
\* entry of month m are computeTotals(computePnL(T_m, prices)), T_m being the
\* transactions of month m or earlier; the last entry has the totals of the
\* whole list.
C12_MonthlyEntries ==
  HistoryReturned =>
    /\ Len(history) = Cardinality(MonthSet)
    /\ {history[i].month : i \in 1..Len(history)} = MonthSet
    /\ \A i \in 1..Len(history) - 1 : history[i].month < history[i + 1].month
    /\ transactions = <<>> => history = <<>>
    /\ \A i \in 1..Len(history) :
         TotalsOfEntry(history[i]) = TotalsOfList(AtOrBefore(history[i].month))
    /\ history # <<>> =>
         TotalsOfEntry(history[Len(history)]) = TotalsOfList(transactions)

\* a history of two months out of three transactions given latest first,
\* whose two entries differ in what is invested and what is realised
C12_Witness ==
  /\ HistoryReturned
  /\ Len(history) = 2
  /\ Len(transactions) = 3
  /\ transactions[1].date > transactions[3].date
  /\ history[1].invested # history[2].invested
  /\ history[1].realised # history[2].realised

----------------------------------------------------------------------------
(* C13 *)

\* value + realised of the i-th entry
PortfolioValueOf(i) == history[i].value + history[i].realised

C13_AfterALoss ==
  /\ HistoryReturned
  /\ Len(history) = 2
  /\ PortfolioValueOf(1) < 0
  /\ PortfolioValueOf(2) # PortfolioValueOf(1)

----------------------------------------------------------------------------
(* C14 *)

\* the number of the records of the date-sorted list s that are of month m
\* or earlier
CutAfter(s, m) == Cardinality({j \in 1..Len(s) : MonthOf(s[j].date) <= m})

\* the totals of the ledger a single pass over the date-sorted list of all
\* the transactions has reached just after the last transaction of month m
TotalsAfterMonth(m) ==
  LET all == SortByDate(transactions)
      L == Replay(EmptyLedger, SubSeq(all, 1, CutAfter(all, m)))
  IN  computeTotals(L.keys, Summarize(L, prices))

\* C14: whatever the order the transactions are given in, the totals of the
\* entry of every month m are the totals of the ledger that one pass over the
\* date-sorted list of all the transactions has reached just after the last
\* transaction of month m.
C14_IncrementalReplay ==
  \A i \in 1..Len(history) :
    TotalsOfEntry(history[i]) = TotalsAfterMonth(history[i].month)

\* a history of two months of transactions that are not given in date order,
\* two of them of the same asset on the same day
C14_Witness ==
  /\ HistoryReturned
  /\ Len(history) = 2
  /\ \E i, j \in 1..Len(transactions) :
       /\ i < j
       /\ transactions[i].date > transactions[j].date
  /\ \E i, j \in 1..Len(transactions) :
       /\ i < j
       /\ transactions[i].date = transactions[j].date
       /\ transactions[i].asset = transactions[j].asset
       /\ transactions[i].type = "BUY"
       /\ transactions[j].type = "SELL"
  /\ history[2].invested # history[1].invested

----------------------------------------------------------------------------
(* C11 *)

\* every step leaves the caller's transactions and prices as they are; the
\* second call starts from no lot; what the second call returns is what the
\* first returned
PureStep ==
  /\ transactions' = transactions
  /\ prices' = prices
  /\ (calls' = 1 /\ pc' = "sort") => CurLedger' = EmptyLedger
  /\ (calls' = 1 /\ pc' = "returned") => result' = first'.result
  /\ (calls' = 1 /\ pc' = "done") => totals' = first'.totals
  /\ (calls' = 1 /\ pc' = "historyReturned") => history' = first'.history

\* C11: computePnL and computeMonthlyHistory are pure: no step of a call
\* changes the caller's transaction list (its order, the fields of its
\* records) or price map, a call starts with no lot of the call before it,
\* and a second call on the same arguments returns what the first returned.
C11_Pure == [][PureStep]_vars

\* the second call has returned a history of two months for transactions
\* that were not given in date order, with a SELL that consumed a lot
C11_Witness ==
  /\ calls = 1
  /\ pc = "historyReturned"
  /\ Len(history) = 2
  /\ \E i, j \in 1..Len(transactions) :
       /\ i < j
       /\ transactions[i].date > transactions[j].date
  /\ first.totals.realised # 0
  /\ portions # <<>>

----------------------------------------------------------------------------
(* C16 *)

\* what a step does to the queue of the asset a: a lot leaves the queue only
\* from its head, in an iteration of a SELL of a, when what the SELL leaves of
\* it is at or below Eps; an iteration of a SELL of a removes the head when
\* what it leaves of it is at or below Eps and keeps it, reduced, otherwise
RemovalStep(a) ==
  LET lots == lotsByAsset[a]
      after == lotsByAsset'[a]
      left == lots[1].quantity - Min(lots[1].quantity, qtyToSell)
  IN  /\ Len(after) < Len(lots) =>
           /\ pc = "sell"
           /\ sorted[idx].asset = a
           /\ after = Tail(lots)
           /\ left <= Eps
      /\ (pc = "sell" /\ sorted[idx].asset = a /\ qtyToSell > 0 /\ lots # <<>>) =>
           IF left <= Eps
           THEN after = Tail(lots)
           ELSE after = <<[lots[1] EXCEPT !.quantity = left]>> \o Tail(lots)

\* when computePnL returns, the residues removed with their lots are in
\* neither the quantity nor the invested of the result
ResidueUncounted ==
  pc' = "returned" =>
    \A a \in DOMAIN result' :
      /\ result'[a].quantity =
           QtyOf(transactions, "BUY", a) - PortionQty(a) - DroppedQty(a)
      /\ result'[a].invested = BoughtCost(a) - ConsumedCost(a) - DroppedCost(a)

\* C16: a lot is removed from the queue of its asset exactly when, after a
\* SELL has consumed from it, what is left of it is at or below 1e-8; a lot
\* with more than 1e-8 left is never removed; the residue removed with a lot
\* is counted neither in quantity nor in invested.
C16_ResidueRemoval == [][(\A a \in Assets : RemovalStep(a)) /\ ResidueUncounted]_vars

\* computePnL has returned quantity 0 for an asset of which one more unit was
\* bought than sold: the unit is the residue of a lot two SELLs consumed
C16_Witness ==
  /\ pc = "done"
  /\ \E i \in 1..Len(dropped) :
       LET a == dropped[i].asset
       IN  /\ dropped[i].quantity = Eps
           /\ result[a].quantity = 0
           /\ QtyOf(transactions, "BUY", a) - QtyOf(transactions, "SELL", a) = Eps
           /\ excess[a] = 0

----------------------------------------------------------------------------
(* C15 *)

\* the request to the price service failed or its response could not be read
RequestFailed == outcome.kind \in {"fails", "unreadable", "null"}

\* C15: a call of fetchPrices never stops short of resolving: until it has
\* resolved it has a next step, whatever became of the request.  The mapping
\* it resolves to has the manual value for every asset of the manual
\* overrides, whatever the service returned; it is exactly the manual
\* overrides when the request failed or its response could not be read; and
\* it is what fetchPricesResult computes.
C15_FetchResolves ==
  /\ fpc \in {"call", "fetch", "json", "manual", "resolved"}
  /\ fpc # "resolved" => ENABLED NextFetch
  /\ fpc = "resolved" =>
       /\ \A a \in FetchAssets : manual[a] # NoPrice => fetched[a] = manual[a]
       /\ RequestFailed => fetched = manual
       /\ fetched = fetchPricesResult(assets, manual, outcome)

\* the call has resolved after the service returned a price for an asset
\* that has another price in the manual overrides
C15_Witness ==
  /\ fpc = "resolved"
  /\ outcome.kind = "data"
  /\ \E a \in assets \cap DOMAIN priceIds :
       /\ outcome.data[priceIds[a]].entry
       /\ outcome.data[priceIds[a]].eur # NoPrice
       /\ manual[a] # NoPrice
       /\ manual[a] # outcome.data[priceIds[a]].eur
  /\ \E b \in FetchAssets : manual[b] = NoPrice /\ fetched[b] # NoPrice

\* the call has resolved after the request failed
C15_AfterFailure ==
  /\ fpc = "resolved"
  /\ RequestFailed
  /\ manual # NoPrices

----------------------------------------------------------------------------
(* C17 *)

\* the step applies the response of the i-th call in flight to the prices
Applies(i) ==
  /\ i \in 1..Len(inflight)
  /\ inflight' = RemoveAt(inflight, i)
  /\ pending'.prices.set
  /\ ~ pending.prices.set

\* a response is applied only if it is the response of the call the last run
\* of the price-fetch effect started, and the transactions and the manual
\* prices are those the call was started with
AppliedIsCurrent ==
  \A i \in 1..Len(inflight) :
    Applies(i) =>
      /\ inflight[i].epoch = epoch
      /\ inflight[i].transactions = transactions
      /\ inflight[i].manual = manualPrices

\* the response of a call that is not the last one started changes nothing
\* but the calls in flight
SupersededIsDiscarded ==
  \A i \in 1..Len(inflight) :
    (inflight[i].epoch < epoch /\ inflight' = RemoveAt(inflight, i)) =>
      UNCHANGED <<transactions, prices, manualPrices, pending, lastUpdated,
                  homeSummary, homeHistory, storage>>

\* with no transaction rendered and none waiting for a render, the prices are
\* the empty map after every step, and nothing but the empty map waits
EmptyStaysEmpty ==
  (hpc' = "mounted" /\ transactions' = <<>> /\ ~ pending'.transactions.set) =>
    /\ prices' = NoPrices
    /\ pending'.prices.set => pending'.prices.value = NoPrices

C17_AfterClear ==
  /\ hpc = "mounted"
  /\ pending = NoPending
  /\ transactions = <<>>
  /\ storedBefore.present
  /\ storedBefore.text # Stringify(<<>>)
  /\ events = 1
  /\ inflight = <<>>
  /\ lastUpdated = 0

----------------------------------------------------------------------------
(* C18 *)

\* the page is mounted and no update of the transactions waits for a render
Settled == hpc = "mounted" /\ ~ pending.transactions.set

C18_AfterClear ==
  /\ Settled
  /\ events = 1
  /\ storedBefore.present
  /\ storedBefore.text # Stringify(<<>>)
  /\ transactions = <<>>
  /\ storage = Item(<<>>)

====
